---------------------------- MODULE Spec2Model ----------------------------
(***************************************************************************)
(* A model of network_utils.py: the construction of the contact graph      *)
(* (create_graph), the grid of structures (create_grid, get_neighbors),    *)
(* the wiring passes (connect_neighbors, connect_food_queue) and the       *)
(* thinning pass (remove_edges_from_graph and its two wrappers).           *)
(*                                                                         *)
(* A networkx graph is a record                                            *)
(*   nodes : the node ids in insertion (= iteration) order,                *)
(*   attr  : node -> its attribute record,                                 *)
(*   edges : {u, v} -> [label, weight]  (undirected, at most one edge per  *)
(*           pair; adding an edge that exists overwrites its attributes).  *)
(* Python names refer to objects: graphs live in a heap and a local name   *)
(* holds a reference, so that base_graph.copy() is something the model     *)
(* can get wrong.                                                          *)
(*                                                                         *)
(* Every random draw of the code (np.random.choice, np.random.exponential, *)
(* np.random.shuffle) is a nondeterministic choice over all its outcomes.  *)
(***************************************************************************)
EXTENDS Integers, Sequences, FiniteSets

VARIABLES
    pc,                 \* where the running call is
    args,               \* the parameters of the running call
    world,              \* the caller's data as it was before any call
    heap,               \* reference -> graph object
    graph,              \* the reference held by the local name `graph`
    trace,              \* the locals of the loop iterations run so far
    g,                  \* create_graph: the graph under construction
    struct_count,       \* create_graph: nodes placed per structure
    nodes_per_struct,   \* create_graph: the node list of each structure
    available_structs,  \* create_graph: the pool of structures still offered
    node,               \* create_graph: the loop variable of the assignment loop
    grid,               \* create_grid's result
    neighbors           \* get_neighbors' result

vars == <<pc, args, world, heap, graph, trace, g, struct_count,
          nodes_per_struct, available_structs, node, grid, neighbors>>

createVars == <<g, struct_count, nodes_per_struct, available_structs, node>>
gridVars == <<grid, neighbors>>
deriveVars == <<world, heap, graph, trace>>

-----------------------------------------------------------------------------
(* Bounds of the model *)

MaxNodes == 3       \* nodes of a base graph given to the thinning pass
MaxMin == 1         \* largest min_num_edges passed
MaxDraw == 3        \* largest integer part of an exponential draw modelled
MaxProx == 2        \* largest proximity passed
MaxDim == 3         \* largest width and height of a grid
MaxPop == 3         \* largest population passed to create_graph
MaxCap == 2         \* largest capacity of a structure

-----------------------------------------------------------------------------
(* Helpers on numbers, sequences and sets *)

Min(a, b) == IF b < a THEN b ELSE a
Max(a, b) == IF b > a THEN b ELSE a

Range(s) == {s[i] : i \in DOMAIN s}

RECURSIVE SetToSeq(_)
\* the elements of a set of integers in ascending order
SetToSeq(S) ==
    IF S = {} THEN <<>>
    ELSE LET m == CHOOSE x \in S : \A y \in S : x <= y
         IN <<m>> \o SetToSeq(S \ {m})

-----------------------------------------------------------------------------
(* networkx.Graph *)

EmptyGraph == [nodes |-> <<>>, attr |-> <<>>, edges |-> <<>>]

has_edge(G, u, v) == {u, v} \in DOMAIN G.edges

\* graph[n].keys(): the nodes adjacent to n
adjacent(G, n) == {v \in Range(G.nodes) : v # n /\ has_edge(G, n, v)}

add_edge(G, u, v, weight, label) ==
    [G EXCEPT !.edges =
        [e \in DOMAIN G.edges \cup {{u, v}} |->
            IF e = {u, v} THEN [label |-> label, weight |-> weight]
            ELSE G.edges[e]]]

remove_edge(G, u, v) ==
    [G EXCEPT !.edges = [e \in DOMAIN G.edges \ {{u, v}} |-> G.edges[e]]]

\* `graph = base_graph`: the same object under a second name
GraphAlias(h) == [heap |-> h, ref |-> "base_graph"]

\* Graph.copy(): a new object with the same nodes, attributes and edges
GraphCopy(h) ==
    [heap |-> [r \in DOMAIN h \cup {"graph"} |->
                  IF r = "graph" THEN h["base_graph"] ELSE h[r]],
     ref |-> "graph"]

-----------------------------------------------------------------------------
(* create_grid, get_neighbors *)

\* lines 104-112: grid[i][j] = i * height + j, for i < width and j < height
create_grid(width, height) ==
    [i \in 0 .. width - 1 |-> [j \in 0 .. height - 1 |-> i * height + j]]

\* a grid that wraps around at its border
WrapAround(v, hi) == v % (hi + 1)

\* lines 137-138: min(max(v, 0), hi)
ClampTo(v, hi) == Min(Max(v, 0), hi)

\* lines 128-143
get_neighbors(gr, structure_num, proximity) ==
    LET width == Cardinality(DOMAIN gr)
        height == Cardinality(DOMAIN gr[0])
        offsets == {ij \in ((0 - proximity) .. proximity) \X ((0 - proximity) .. proximity) :
                       ~(ij[1] = 0 /\ ij[2] = 0)}
        x(ij) == ClampTo((structure_num \div height) - ij[1], width - 1)
        y(ij) == ClampTo((structure_num % height) - ij[2], height - 1)
    IN {gr[x(ij)][y(ij)] : ij \in {o \in offsets : gr[x(o)][y(o)] # structure_num}}

-----------------------------------------------------------------------------
(* The caller's data: a labelled base graph with what the wiring passes    *)
(* take beside it.  Edge weights follow the label, as in a graph built     *)
(* by the wiring passes, each of which gives all its edges one weight.     *)

Labels == {"food", "neighbor"}

WeightOf(l) == IF l = "food" THEN 1 ELSE IF l = "neighbor" THEN 2 ELSE 3

EdgeAttrs == {[label |-> l, weight |-> WeightOf(l)] : l \in Labels}

Pairs(N) == {{u, v} : u, v \in 0 .. N - 1} \ {{u} : u \in 0 .. N - 1}

NodeSeq(N) == [i \in 1 .. N |-> i - 1]

\* two structures side by side; node n lives in structure n % 2
SmallAttr(N) ==
    [n \in 0 .. N - 1 |-> [location |-> n % 2, ethnicity |-> (n \div 2) % 2]]

SmallWorlds ==
    UNION {
        UNION {
            {[graph |-> [nodes |-> NodeSeq(N), attr |-> SmallAttr(N), edges |-> E],
              nodes_per_structure |->
                  <<SetToSeq({n \in 0 .. N - 1 : n % 2 = 0}),
                    SetToSeq({n \in 0 .. N - 1 : n % 2 = 1})>>,
              width |-> 1, height |-> 2]
             : E \in [D -> EdgeAttrs]}
            : D \in SUBSET Pairs(N)}
        : N \in 1 .. MaxNodes}

\* The queue worlds: structures of two nodes in a row, s holding 2s and 2s+1,
\* with a "household" edge inside each structure and a "neighbor" edge between
\* the same-ethnicity nodes of the first two structures.
QueueAttr(S) ==
    [n \in 0 .. 2 * S - 1 |-> [location |-> n \div 2, ethnicity |-> n % 2]]

QueueEdges(S) ==
    [e \in {{n, n + 1} : n \in {m \in 0 .. 2 * S - 1 : m % 2 = 0}}
           \cup {{0, 2}, {1, 3}} |->
        IF \E n \in e : n % 2 = 0 /\ e = {n, n + 1}
        THEN [label |-> "household", weight |-> WeightOf("household")]
        ELSE [label |-> "neighbor", weight |-> WeightOf("neighbor")]]

QueueWorld(S) ==
    [graph |-> [nodes |-> NodeSeq(2 * S), attr |-> QueueAttr(S), edges |-> QueueEdges(S)],
     nodes_per_structure |-> [s \in 1 .. S |-> <<2 * (s - 1), 2 * (s - 1) + 1>>],
     width |-> 1, height |-> S]

-----------------------------------------------------------------------------
(* remove_edges_from_graph, create_distancing_graph, create_quarantine_graph *)

\* line 82: int(max(min(draw, len(neighbors)), min_num_edges)), with d the
\* integer part of the draw (int() truncates, and both bounds are integers)
quarantine_edge_num(d, n_neighbors, min_num_edges) ==
    Max(Min(d, n_neighbors), min_num_edges)

\* the listed-label neighbors read from base_graph instead of the copy
ListedFromBase(h, ref, n, edge_label_list) ==
    {v \in adjacent(h["base_graph"], n) :
        h["base_graph"].edges[{n, v}].label \in edge_label_list}

\* all the neighbors, whatever the label of the edge
UnlistedToo(h, ref, n, edge_label_list) == adjacent(h[ref], n)

\* lines 78-79: the neighbors of n over an edge with a listed label
ListedNeighbors(h, ref, n, edge_label_list) ==
    {v \in adjacent(h[ref], n) : h[ref].edges[{n, v}].label \in edge_label_list}

RECURSIVE RemoveAll(_, _, _)
\* lines 88-90: remove the edge from n to every neighbor in drop
RemoveAll(G, n, drop) ==
    IF drop = {} THEN G
    ELSE LET v == CHOOSE x \in drop : TRUE
         IN RemoveAll(remove_edge(G, n, v), n, drop \ {v})

\* line 76: `for node in graph` visits the nodes in insertion order
NodeAt(G, i) == G.nodes[i]

\* the entry of remove_edges_from_graph (line 74), reached directly or through
\* create_distancing_graph (line 62) or create_quarantine_graph (line 66)
RemoveCall(edge_label_list, min_num_edges) ==
    /\ pc = "idle"
    /\ LET c == GraphCopy(heap)
       IN /\ heap' = c.heap
          /\ graph' = c.ref
    /\ args' = [fn |-> "remove_edges_from_graph",
                edge_label_list |-> edge_label_list,
                min_num_edges |-> min_num_edges]
    /\ trace' = <<>>
    /\ pc' = "remove"
    /\ UNCHANGED <<world, createVars, gridVars>>

create_distancing_graph ==
    \E m \in 0 .. MaxMin : RemoveCall({"food"}, m)

create_quarantine_graph ==
    \E m \in 0 .. MaxMin : RemoveCall({"food", "neighbor"}, m)

\* one iteration of the loop of lines 76-90.  d is the integer part of the
\* exponential draw (every draw above the neighbor count clamps as that count
\* does).  np.random.choice (line 85) raises ValueError when asked for more
\* neighbors than there are, and returns an empty sample when asked for none.
RemoveStep ==
    /\ pc = "remove"
    /\ Len(trace) < Len(heap[graph].nodes)
    /\ LET n == NodeAt(heap[graph], Len(trace) + 1)
           nbrs == ListedNeighbors(heap, graph, n, args.edge_label_list)
       IN \E d \in 0 .. MaxDraw :
            LET k == quarantine_edge_num(d, Cardinality(nbrs), args.min_num_edges)
            IN IF k > Cardinality(nbrs)
               THEN /\ pc' = "error"
                    /\ trace' = Append(trace, [node |-> n, neighbors |-> nbrs,
                                               quarantine_edge_num |-> k,
                                               keep |-> {}, raised |-> TRUE])
                    /\ heap' = heap
               ELSE \E keep \in {S \in SUBSET nbrs : Cardinality(S) = k} :
                    /\ pc' = "remove"
                    /\ trace' = Append(trace, [node |-> n, neighbors |-> nbrs,
                                               quarantine_edge_num |-> k,
                                               keep |-> keep, raised |-> FALSE])
                    /\ heap' = [heap EXCEPT ![graph] = RemoveAll(@, n, nbrs \ keep)]
    /\ UNCHANGED <<args, world, graph, createVars, gridVars>>

\* line 92
RemoveReturn ==
    /\ pc = "remove"
    /\ Len(trace) = Len(heap[graph].nodes)
    /\ pc' = "done"
    /\ UNCHANGED <<args, world, heap, graph, trace, createVars, gridVars>>

-----------------------------------------------------------------------------
(* connect_neighbors *)

\* Graph.add_edges_from(pairs, weight=, label=): an edge that exists gets
\* the new attributes
add_edges_from(G, pairs, weight, label) ==
    [G EXCEPT !.edges =
        [e \in DOMAIN G.edges \cup pairs |->
            IF e \in pairs THEN [label |-> label, weight |-> weight]
            ELSE G.edges[e]]]

\* lines 161-163: the pairs (i, j) of the two structures with equal ethnicity
SameEthnicityPairs(G, nodes_per_structure, structure, neighbor) ==
    {{i, j} : <<i, j>> \in
        {ij \in Range(nodes_per_structure[structure + 1])
                  \X Range(nodes_per_structure[neighbor + 1]) :
            G.attr[ij[1]].ethnicity = G.attr[ij[2]].ethnicity}}

RECURSIVE ConnectToEach(_, _, _, _, _, _)
\* lines 159-164: the loop over the neighbor structures of one structure
ConnectToEach(G, nodes_per_structure, structure, todo, weight, label) ==
    IF todo = {} THEN G
    ELSE LET neighbor == CHOOSE x \in todo : TRUE
         IN ConnectToEach(
                add_edges_from(G,
                    SameEthnicityPairs(G, nodes_per_structure, structure, neighbor),
                    weight, label),
                nodes_per_structure, structure, todo \ {neighbor}, weight, label)

RECURSIVE ConnectStructures(_, _, _, _, _, _, _, _)
\* lines 153-164: the loop over range(n_structures), from `structure` on
ConnectStructures(G, n_structures, nps, gr, proximity, weight, label, structure) ==
    IF structure >= n_structures THEN G
    ELSE ConnectStructures(
             ConnectToEach(G, nps, structure,
                           get_neighbors(gr, structure, proximity), weight, label),
             n_structures, nps, gr, proximity, weight, label, structure + 1)

\* lines 146-166
connect_neighbors ==
    /\ pc = "idle"
    /\ \E proximity \in 0 .. MaxProx :
         LET c == GraphCopy(heap)
             gr == create_grid(world.width, world.height)
         IN /\ heap' = [c.heap EXCEPT ![c.ref] =
                           ConnectStructures(@, Len(world.nodes_per_structure),
                               world.nodes_per_structure, gr, proximity,
                               WeightOf("neighbor"), "neighbor", 0)]
            /\ graph' = c.ref
            /\ args' = [fn |-> "connect_neighbors", proximity |-> proximity,
                        edge_weight |-> WeightOf("neighbor"), label |-> "neighbor"]
    /\ trace' = <<>>
    /\ pc' = "done"
    /\ UNCHANGED <<world, createVars, gridVars>>

-----------------------------------------------------------------------------
(* connect_food_queue *)

\* a loop that stops one member later: range(len(food_bois) - 5)
FoodStartsLate(food_bois) == Len(food_bois) - 5

\* line 191: range(len(food_bois) - 6), the end of the range of i
FoodStarts(food_bois) == Len(food_bois) - 6

\* line 192: range(i + 1, i + 6), the end of the range of j
FoodWindow(i) == i + 6

RECURSIVE Shuffles(_)
\* np.random.shuffle: every order of the pool
Shuffles(S) ==
    IF S = {} THEN {<<>>}
    ELSE UNION {{<<x>> \o p : p \in Shuffles(S \ {x})} : x \in S}

RECURSIVE FoodPools(_, _)
\* lines 179-184: len(node_list) // 2 draws with replacement from each
\* structure, collected in a set: from each structure any non-empty set of
\* at most that many of its nodes (none when it has fewer than two nodes)
FoodPools(nodes_per_structure, s) ==
    IF s > Len(nodes_per_structure) THEN {{}}
    ELSE LET node_list == nodes_per_structure[s]
             draws == Len(node_list) \div 2
             picks == IF draws = 0 THEN {{}}
                      ELSE {D \in SUBSET Range(node_list) :
                               D # {} /\ Cardinality(D) <= draws}
         IN {D \cup rest : D \in picks, rest \in FoodPools(nodes_per_structure, s + 1)}

RECURSIVE FoodLoop(_, _, _, _, _, _)
\* lines 191-194, with i and j the 0-based indices of the code
FoodLoop(G, food_bois, i, j, weight, label) ==
    IF i >= FoodStarts(food_bois) THEN G
    ELSE IF j >= FoodWindow(i)
         THEN FoodLoop(G, food_bois, i + 1, i + 2, weight, label)
         ELSE FoodLoop(
                  IF ~has_edge(G, food_bois[i + 1], food_bois[j + 1])
                  THEN add_edge(G, food_bois[i + 1], food_bois[j + 1], weight, label)
                  ELSE G,
                  food_bois, i, j + 1, weight, label)

\* lines 177-184: the copy and the draws of the pool
FoodDraw ==
    /\ pc = "idle"
    /\ LET c == GraphCopy(heap)
       IN /\ heap' = c.heap
          /\ graph' = c.ref
    /\ \E pool \in FoodPools(world.nodes_per_structure, 1) :
           trace' = <<[pool |-> pool]>>
    /\ args' = [fn |-> "connect_food_queue",
                edge_weight |-> WeightOf("food"), label |-> "food"]
    /\ pc' = "food"
    /\ UNCHANGED <<world, createVars, gridVars>>

\* lines 187-195: the shuffle and the loop over the queue
FoodQueue ==
    /\ pc = "food"
    /\ \E food_bois \in Shuffles(trace[1].pool) :
         /\ heap' = [heap EXCEPT ![graph] =
                        FoodLoop(@, food_bois, 0, 1, args.edge_weight, args.label)]
         /\ trace' = <<[food_bois |-> food_bois]>>
    /\ pc' = "done"
    /\ UNCHANGED <<args, world, graph, createVars, gridVars>>

-----------------------------------------------------------------------------
(* Specifications of the passes that derive a graph from a base graph *)

\* the caller takes the derived graph (or the exception) and goes on with
\* base_graph, from which it may derive the next graph
Release ==
    /\ pc \in {"done", "error"}
    /\ pc' = "idle"
    /\ heap' = [r \in {"base_graph"} |-> heap["base_graph"]]
    /\ graph' = "none"
    /\ args' = <<>>
    /\ trace' = <<>>
    /\ UNCHANGED <<world, createVars, gridVars>>

InitIdle ==
    /\ pc = "idle"
    /\ args = <<>>
    /\ graph = "none"
    /\ trace = <<>>
    /\ g = EmptyGraph
    /\ struct_count = <<>>
    /\ nodes_per_struct = <<>>
    /\ available_structs = <<>>
    /\ node = 0
    /\ grid = <<>>
    /\ neighbors = {}

InitRemove ==
    /\ world \in SmallWorlds
    /\ heap = [r \in {"base_graph"} |-> world.graph]
    /\ InitIdle

NextRemove ==
    \/ create_distancing_graph
    \/ create_quarantine_graph
    \/ RemoveStep
    \/ RemoveReturn
    \/ Release

SpecRemove == InitRemove /\ [][NextRemove]_vars

\* pools on both sides of the loop bound of line 191: one too short to start
\* a connection, one just long enough
QueueWorlds == {QueueWorld(6), QueueWorld(7)}

InitFood ==
    /\ world \in SmallWorlds \cup QueueWorlds
    /\ heap = [r \in {"base_graph"} |-> world.graph]
    /\ InitIdle

NextFood ==
    \/ FoodDraw
    \/ FoodQueue
    \/ Release

SpecFood == InitFood /\ [][NextFood]_vars

NextDerive ==
    \/ create_distancing_graph
    \/ create_quarantine_graph
    \/ RemoveStep
    \/ RemoveReturn
    \/ connect_neighbors
    \/ FoodDraw
    \/ FoodQueue
    \/ Release

SpecDerive == InitFood /\ [][NextDerive]_vars

-----------------------------------------------------------------------------
(* create_graph *)

n_ethnicities == 8      \* line 20

\* the values of n_structures passed to create_graph
StructCounts == {1, 2}

RECURSIVE Sum(_)
Sum(s) == IF s = <<>> THEN 0 ELSE Head(s) + Sum(Tail(s))

\* list.remove(x): the list without its first x
RECURSIVE ListRemove(_, _)
ListRemove(s, x) ==
    IF s = <<>> THEN <<>>
    ELSE IF Head(s) = x THEN Tail(s)
    ELSE <<Head(s)>> \o ListRemove(Tail(s), x)

\* lines 35, 41: g.add_node(node); g.nodes[node]["location"] = struct_num
add_node(G, n) ==
    [G EXCEPT !.nodes = Append(@, n),
              !.attr = [m \in DOMAIN G.attr \cup {n} |->
                           IF m = n THEN <<>> ELSE G.attr[m]]]

set_location(G, n, struct_num) ==
    [G EXCEPT !.attr[n] = [location |-> struct_num]]

\* line 42: g.nodes[node]["ethnicity"] = np.random.choice(range(n_ethnicities))
set_ethnicity(G, n, ethnicity) ==
    [G EXCEPT !.attr[n] = [location |-> G.attr[n].location, ethnicity |-> ethnicity]]

\* the append when all structures share one list ([[]] * n_structures)
AppendShared(nps, struct_num, n) == [s \in DOMAIN nps |-> Append(nps[s], n)]

\* lines 29, 46: nodes_per_struct[struct_num].append(node), each structure
\* having a list of its own
AppendNode(nps, struct_num, n) == [nps EXCEPT ![struct_num] = Append(@, n)]

\* a test that closes a structure when it reaches its capacity
StructFullEarly(count, capacity) == count >= capacity

\* line 48: struct_count[struct_num] > max_pop_per_struct[struct_num]
StructFull(count, capacity) == count > capacity

\* the product without the filter tup[0] != tup[1]
edge_list_unfiltered(node_list) ==
    {{a, b} : a, b \in Range(node_list)}

\* line 55: the pairs of distinct nodes of one structure
edge_list(node_list) ==
    {{tup[1], tup[2]} : tup \in
        {t \in Range(node_list) \X Range(node_list) : t[1] # t[2]}}

RECURSIVE ConnectInside(_, _, _, _, _)
\* lines 52-56: the loop over nodes_per_struct, from structure s on
ConnectInside(G, nps, s, weight, label) ==
    IF s \notin DOMAIN nps THEN G
    ELSE ConnectInside(add_edges_from(G, edge_list(nps[s]), weight, label),
                       nps, s + 1, weight, label)

\* the capacity of structure s (max_pop_per_struct[s], a Python list)
Capacity(s) == args.max_pop_per_struct[s + 1]

\* lines 20-31: the state on entry to the assignment loop
InitCreate ==
    /\ \E S \in StructCounts, P \in 0 .. MaxPop :
       \E caps \in [1 .. S -> (0 - 1) .. MaxCap] :
         /\ args = [fn |-> "create_graph", n_structures |-> S, population |-> P,
                    max_pop_per_struct |-> caps,
                    edge_weight |-> WeightOf("household"), label |-> "household"]
         /\ struct_count = [s \in 0 .. S - 1 |-> 0]
         /\ nodes_per_struct = [s \in 0 .. S - 1 |-> <<>>]
         /\ available_structs = [i \in 1 .. S |-> i - 1]
    /\ pc = "assign"
    /\ node = 0
    /\ g = EmptyGraph
    /\ world = <<>>
    /\ heap = <<>>
    /\ graph = "none"
    /\ trace = <<>>
    /\ grid = <<>>
    /\ neighbors = {}

\* lines 34-49: one iteration of the assignment loop, with its two draws;
\* np.random.choice raises ValueError on an empty pool
AssignNode ==
    /\ pc = "assign"
    /\ node < args.population
    /\ IF available_structs = <<>>
       THEN /\ g' = add_node(g, node)
            /\ pc' = "error"
            /\ UNCHANGED <<struct_count, nodes_per_struct, available_structs, node>>
       ELSE \E struct_num \in Range(available_structs) :
            \E ethnicity \in 0 .. n_ethnicities - 1 :
            /\ g' = set_ethnicity(set_location(add_node(g, node), node, struct_num),
                                  node, ethnicity)
            /\ struct_count' = [struct_count EXCEPT ![struct_num] = @ + 1]
            /\ nodes_per_struct' = AppendNode(nodes_per_struct, struct_num, node)
            /\ available_structs' =
                   IF StructFull(struct_count'[struct_num], Capacity(struct_num))
                   THEN ListRemove(available_structs, struct_num)
                   ELSE available_structs
            /\ node' = node + 1
            /\ pc' = "assign"
    /\ UNCHANGED <<args, deriveVars, gridVars>>

\* lines 51-58: the cliques and the return
ConnectAndReturn ==
    /\ pc = "assign"
    /\ node = args.population
    /\ g' = ConnectInside(g, nodes_per_struct, 0, args.edge_weight, args.label)
    /\ pc' = "done"
    /\ UNCHANGED <<args, struct_count, nodes_per_struct, available_structs, node,
                   deriveVars, gridVars>>

NextCreate ==
    \/ AssignNode
    \/ ConnectAndReturn

SpecCreate == InitCreate /\ [][NextCreate]_vars

-----------------------------------------------------------------------------
(* The grid: create_grid, then get_neighbors on its result *)

InitGrid ==
    /\ \E width, height \in 1 .. MaxDim :
           args = [fn |-> "create_grid", width |-> width, height |-> height]
    /\ pc = "start"
    /\ grid = <<>>
    /\ neighbors = {}
    /\ world = <<>>
    /\ heap = <<>>
    /\ graph = "none"
    /\ trace = <<>>
    /\ g = EmptyGraph
    /\ struct_count = <<>>
    /\ nodes_per_struct = <<>>
    /\ available_structs = <<>>
    /\ node = 0

\* lines 100-112
CreateGridCall ==
    /\ pc = "start"
    /\ grid' = create_grid(args.width, args.height)
    /\ pc' = "grid"
    /\ UNCHANGED <<args, neighbors, deriveVars, createVars>>

\* the structure ids of the grid
GridIds == UNION {{grid[i][j] : j \in DOMAIN grid[i]} : i \in DOMAIN grid}

\* lines 115-143
GetNeighborsCall ==
    /\ pc \in {"grid", "neighbors"}
    /\ \E structure_num \in GridIds, proximity \in 0 .. MaxProx :
         /\ neighbors' = get_neighbors(grid, structure_num, proximity)
         /\ args' = [fn |-> "get_neighbors", structure_num |-> structure_num,
                     proximity |-> proximity]
    /\ pc' = "neighbors"
    /\ UNCHANGED <<grid, deriveVars, createVars>>

NextGrid ==
    \/ CreateGridCall
    \/ GetNeighborsCall

SpecGrid == InitGrid /\ [][NextGrid]_vars

-----------------------------------------------------------------------------
(* Properties of the thinning pass *)

Base == world.graph
Result == heap[graph]

Thinning == pc \in {"remove", "done", "error"} /\ args.fn = "remove_edges_from_graph"
Thinned == pc = "done" /\ args.fn = "remove_edges_from_graph"

Listed(G, n) ==
    {v \in adjacent(G, n) : G.edges[{n, v}].label \in args.edge_label_list}

\* the iterations that ran to their end
Ran == {i \in DOMAIN trace : ~trace[i].raised}

\* C2: after remove_edges_from_graph returns, every node has at most as many
\* listed-label edges as in base_graph, and at least min_num_edges of them
\* unless it had fewer than min_num_edges in base_graph.
C2_MonotonicThinning ==
    Thinned =>
        \A n \in Range(Base.nodes) :
            /\ Cardinality(Listed(Result, n)) <= Cardinality(Listed(Base, n))
            /\ Cardinality(Listed(Base, n)) >= args.min_num_edges
                   => Cardinality(Listed(Result, n)) >= args.min_num_edges

\* C3: remove_edges_from_graph never fails: at every node the clamped
\* retention count is at most the number of candidate neighbors, so the
\* sample without replacement is valid and the call returns.
C3_NeverFails ==
    Thinning =>
        /\ pc # "error"
        /\ \A i \in DOMAIN trace :
               trace[i].quarantine_edge_num <= Cardinality(trace[i].neighbors)

\* C4: during and after remove_edges_from_graph every edge of base_graph
\* whose label is not listed is present with its label and weight, no node
\* and no edge is added, and every edge removed carries a listed label; so
\* create_distancing_graph keeps every "neighbor" edge and removes only
\* "food" edges.
C4_LabelIsolation ==
    Thinning =>
        /\ Result.nodes = Base.nodes
        /\ Result.attr = Base.attr
        /\ DOMAIN Result.edges \subseteq DOMAIN Base.edges
        /\ \A e \in DOMAIN Result.edges : Result.edges[e] = Base.edges[e]
        /\ \A e \in DOMAIN Base.edges :
               Base.edges[e].label \notin args.edge_label_list
                   => e \in DOMAIN Result.edges
        /\ args.edge_label_list = {"food"} =>
               \A e \in DOMAIN Base.edges \ DOMAIN Result.edges :
                   Base.edges[e].label = "food"

\* a distancing run that returned, removed a "food" edge and met a "neighbor" edge
C4_Witness ==
    /\ Thinned
    /\ args.edge_label_list = {"food"}
    /\ \E e \in DOMAIN Base.edges : Base.edges[e].label = "neighbor"
    /\ \E e \in DOMAIN Base.edges \ DOMAIN Result.edges : Base.edges[e].label = "food"

\* C10: the nodes are processed one at a time in ascending id; the candidates
\* (and the neighbor count of the clamp) of a node are its listed-label
\* neighbors in base_graph less those an earlier-processed endpoint did not
\* retain; and a listed-label edge is in the graph exactly when every
\* endpoint processed so far retained it -- so a dropped edge never comes back
\* and, on return, an edge is present exactly when both endpoints retained it.
C10_FirstDecisionWins ==
    Thinning =>
        /\ \A i \in DOMAIN trace : trace[i].node = i - 1
        /\ \A i \in DOMAIN trace :
               trace[i].neighbors =
                   {v \in Listed(Base, trace[i].node) :
                       \A j \in 1 .. i - 1 :
                           trace[j].node = v => trace[i].node \in trace[j].keep}
        /\ \A i \in DOMAIN trace :
               trace[i].quarantine_edge_num >= args.min_num_edges
        /\ \A i \in Ran :
               /\ trace[i].keep \subseteq trace[i].neighbors
               /\ Cardinality(trace[i].keep) = trace[i].quarantine_edge_num
        /\ \A e \in DOMAIN Base.edges :
               Base.edges[e].label \in args.edge_label_list =>
                   (e \in DOMAIN Result.edges <=>
                       \A i \in Ran : trace[i].node \in e =>
                           (e \ {trace[i].node}) \subseteq trace[i].keep)
        /\ pc = "done" => Ran = 1 .. Len(Base.nodes)

\* a run that returned in which one edge was dropped by its earlier endpoint
\* and another was retained by its earlier endpoint and dropped by the later
C10_Witness ==
    /\ Thinned
    /\ \E i, j \in Ran :
           /\ i < j
           /\ trace[j].node \in trace[i].neighbors \ trace[i].keep
    /\ \E i, j \in Ran :
           /\ i < j
           /\ trace[j].node \in trace[i].keep
           /\ trace[i].node \in trace[j].neighbors \ trace[j].keep

-----------------------------------------------------------------------------
(* Properties of create_graph *)

Creating == args.fn = "create_graph"

Occurrences(seq, x) == Cardinality({i \in DOMAIN seq : seq[i] = x})

\* C1: when the capacities sum to at least the population, create_graph
\* does not fail, and the graph it returns has exactly the nodes 0..P-1, each
\* with one location in 0..S-1 and listed exactly once in nodes_per_struct,
\* in the list of its location and in no other.
C1_AllPlaced ==
    (Creating /\ Sum(args.max_pop_per_struct) >= args.population) =>
        /\ pc # "error"
        /\ pc = "done" =>
            /\ g.nodes = NodeSeq(args.population)
            /\ DOMAIN g.attr = 0 .. args.population - 1
            /\ DOMAIN nodes_per_struct = 0 .. args.n_structures - 1
            /\ \A n \in 0 .. args.population - 1 :
                /\ g.attr[n].location \in 0 .. args.n_structures - 1
                /\ \A s \in DOMAIN nodes_per_struct :
                       Occurrences(nodes_per_struct[s], n) =
                           IF s = g.attr[n].location THEN 1 ELSE 0

\* a returned graph whose capacities sum to exactly the population, with two
\* structures in use and one of them over its capacity
C1_Witness ==
    /\ Creating
    /\ pc = "done"
    /\ args.population >= 3
    /\ Sum(args.max_pop_per_struct) = args.population
    /\ \E s, t \in DOMAIN struct_count :
           /\ s # t
           /\ struct_count[s] > Capacity(s)
           /\ struct_count[t] > 0

\* C7: in the graph create_graph returns every two distinct nodes with the
\* same location are joined by an edge with the given label and weight, no
\* node has an edge to itself and no edge joins nodes of different locations.
C7_Cliques ==
    (Creating /\ pc = "done") =>
        /\ \A s \in DOMAIN nodes_per_struct :
           \A a, b \in Range(nodes_per_struct[s]) :
               a # b =>
                   /\ has_edge(g, a, b)
                   /\ g.edges[{a, b}] =
                          [label |-> args.label, weight |-> args.edge_weight]
        /\ \A e \in DOMAIN g.edges :
               /\ Cardinality(e) = 2
               /\ \A a, b \in e : g.attr[a].location = g.attr[b].location

\* a returned graph with a structure of several nodes and another in use
C7_Witness ==
    /\ Creating
    /\ pc = "done"
    /\ \E s, t \in DOMAIN nodes_per_struct :
           /\ s # t
           /\ Len(nodes_per_struct[s]) >= 2
           /\ Len(nodes_per_struct[t]) >= 1

CapsNonNegative == \A i \in DOMAIN args.max_pop_per_struct : args.max_pop_per_struct[i] >= 0

InPool(s) == s \in Range(available_structs)

\* C8: with capacities >= 0, at every step of the assignment loop each
\* structure holds at most capacity + 1 nodes and is in the pool exactly when
\* its count is at most its capacity; a step takes a structure out of the pool
\* only by the assignment that makes its count exceed its capacity, and a
\* structure out of the pool stays out and receives no node.
C8_PoolInvariant ==
    /\ []((Creating /\ CapsNonNegative) =>
            \A s \in DOMAIN struct_count :
                /\ struct_count[s] <= Capacity(s) + 1
                /\ struct_count[s] = Len(nodes_per_struct[s])
                /\ Occurrences(available_structs, s) <= 1
                /\ InPool(s) <=> struct_count[s] <= Capacity(s))
    /\ [][(Creating /\ CapsNonNegative) =>
            \A s \in DOMAIN struct_count :
                /\ (InPool(s) /\ s \notin Range(available_structs')) =>
                       /\ struct_count[s] = Capacity(s)
                       /\ struct_count'[s] = Capacity(s) + 1
                       /\ nodes_per_struct'[s] = Append(nodes_per_struct[s], node)
                /\ ~InPool(s) =>
                       /\ s \notin Range(available_structs')
                       /\ struct_count'[s] = struct_count[s]
                       /\ nodes_per_struct'[s] = nodes_per_struct[s]]_vars

\* the loop still running with one structure over its capacity and out of the
\* pool and another still offered
C8_Witness ==
    /\ Creating
    /\ CapsNonNegative
    /\ pc = "assign"
    /\ node < args.population
    /\ \E s, t \in DOMAIN struct_count :
           /\ struct_count[s] = Capacity(s) + 1
           /\ ~InPool(s)
           /\ InPool(t)
           /\ struct_count[t] > 0

-----------------------------------------------------------------------------
(* Properties of get_neighbors *)

Abs(x) == IF x < 0 THEN 0 - x ELSE x

\* the cells of the grid within `proximity` rows and columns of the cell
\* holding structure_num, that cell left out
Window(gr, structure_num, proximity) ==
    UNION {{gr[i][j] : j \in {c \in DOMAIN gr[i] :
                \E si \in DOMAIN gr : \E sj \in DOMAIN gr[si] :
                    /\ gr[si][sj] = structure_num
                    /\ <<i, c>> # <<si, sj>>
                    /\ Abs(i - si) <= proximity
                    /\ Abs(c - sj) <= proximity}}
           : i \in DOMAIN gr}

\* C6: on a grid built by create_grid, get_neighbors(grid, s, p) is exactly
\* the set of structures other than s whose row and column are within p of
\* those of s, cut off at the border; s is never in it, and the result for a
\* smaller proximity is a subset of it.
C6_ChebyshevWindow ==
    pc = "neighbors" =>
        /\ neighbors = Window(grid, args.structure_num, args.proximity)
        /\ args.structure_num \notin neighbors
        /\ \A q \in 0 .. args.proximity :
               get_neighbors(grid, args.structure_num, q) \subseteq neighbors

\* a query at a corner of a grid wider and higher than the window, so that
\* the window is cut off on two sides
C6_Witness ==
    /\ pc = "neighbors"
    /\ args.structure_num = 0
    /\ args.proximity = 1
    /\ Cardinality(DOMAIN grid) = 3
    /\ Cardinality(DOMAIN grid[0]) = 3
    /\ Cardinality(neighbors) = 3

-----------------------------------------------------------------------------
(* Properties of connect_food_queue *)

Queued == pc = "done" /\ args.fn = "connect_food_queue"

\* the positions (from 1) of the queue that start connections: all but the
\* last six
Starters(q) == 1 .. Len(q) - 6

\* C9: in the graph connect_food_queue returns, every queue member but the
\* last six is adjacent to each of the five members after it, the last six
\* start no connection (so a queue of six or fewer adds no edge), an edge of
\* base_graph keeps its label and weight, and every edge added joins two
\* members at most five places apart with the given label and weight.
C9_QueueWindow ==
    Queued =>
        LET q == trace[1].food_bois
        IN /\ \A i \in Starters(q) : \A d \in 1 .. 5 :
                  has_edge(Result, q[i], q[i + d])
           /\ \A e \in DOMAIN Base.edges :
                  e \in DOMAIN Result.edges /\ Result.edges[e] = Base.edges[e]
           /\ \A e \in DOMAIN Result.edges \ DOMAIN Base.edges :
                  /\ Result.edges[e] =
                         [label |-> args.label, weight |-> args.edge_weight]
                  /\ \E i \in Starters(q) : \E d \in 1 .. 5 : e = {q[i], q[i + d]}
           /\ Len(q) <= 6 => Result.edges = Base.edges
           /\ Result.nodes = Base.nodes
           /\ Result.attr = Base.attr

\* a queue of seven whose first member already had an edge to one of the
\* next five, and got a new edge to another
C9_Witness ==
    /\ Queued
    /\ LET q == trace[1].food_bois
       IN /\ Len(q) = 7
          /\ \E d \in 1 .. 5 : has_edge(Base, q[1], q[1 + d])
          /\ \E d \in 1 .. 5 : ~has_edge(Base, q[1], q[1 + d])
          /\ ~has_edge(Result, q[2], q[7])

-----------------------------------------------------------------------------
(* The input of the deriving passes *)

\* C5: connect_neighbors, connect_food_queue and remove_edges_from_graph
\* leave base_graph as it was -- nodes, node attributes, edges, labels and
\* weights -- while they run, when they return and when they fail, so each
\* graph derived later starts from the same base.
C5_BaseUntouched ==
    "base_graph" \in DOMAIN heap => heap["base_graph"] = world.graph

\* a pass that returned a graph different from base_graph
C5_Witness ==
    /\ pc = "done"
    /\ args.fn \in {"connect_neighbors", "connect_food_queue",
                    "remove_edges_from_graph"}
    /\ graph = "graph"
    /\ heap["graph"] # world.graph
    /\ heap["base_graph"] = world.graph

=============================================================================
